---- MODULE Spec2Model ----
(***************************************************************************)
(* A model of app.py, the Streamlit script of the English Learning         *)
(* Assistant: the API-key check, the rate-limited completion call, the     *)
(* extraction of one "###" section from the reply, the text normalisation  *)
(* in front of speech synthesis, and the script's input dispatch.          *)
(*                                                                         *)
(* Python strings are modelled as sequences of characters; a character is  *)
(* a one-character TLA+ string, or "U+XXXX" for a non-ASCII code point.    *)
(* Time is counted in whole seconds; straight-line statements take no      *)
(* time, time.sleep takes its argument, and the rest of the time passes    *)
(* between two runs of the script.                                         *)
(***************************************************************************)
EXTENDS Integers, Sequences, FiniteSets, TLC

VARIABLES
    pc,                 \* position of the running script
    now,                \* the wall clock, time.time(), in seconds
    GOOGLE_API_KEY,     \* whether the credential is set in the environment
    last_request_time,  \* st.session_state.last_request_time, Unset before line 215
    user_input,         \* st.text_input(...) of this run
    selected_option,    \* st.sidebar.radio(...) of this run
    speed,              \* st.radio("Choose:", ["normal", "slow"])
    current_time,       \* local of process_text_with_model
    prompt,             \* the prompt the chain renders for the completion call
    result,             \* the reply of translation_chain.run
    sec,                \* the extracted section
    clean_text,         \* the text handed to gTTS
    audio,              \* the value text_to_speech returned
    info,               \* the st.info boxes of this run, in order
    messages,           \* the st.error / st.success notices of this run
    player,             \* whether st.audio was rendered in this run
    calls,              \* completion calls started in this run
    stamps,             \* assignments to last_request_time in this run
    synth,              \* gTTS calls made in this run
    slept,              \* seconds process_text_with_model slept in this run
    elapsed,            \* current_time - last_request_time at the throttle test
    prevStart,          \* start time of the completion call before the last
    thisStart,          \* start time of the last completion call
    uncaught            \* an exception left the script run

vars ==
    <<pc, now, GOOGLE_API_KEY, last_request_time, user_input, selected_option, speed,
      current_time, prompt, result, sec, clean_text, audio, info, messages, player,
      calls, stamps, synth, slept, elapsed, prevStart, thisStart, uncaught>>

---------------------------------------------------------------------------
(* Literals of the script, one character per element.                      *)

\* RATE_LIMIT_SECONDS = 2
RATE_LIMIT_SECONDS == 2

\* the template of prompt_template
template ==
    <<"\n", "Y", "o", "u", " ", "a", "r", "e", " ", "a", "n", " ", "E", "n", "g", "l",
    "i", "s", "h", " ", "l", "a", "n", "g", "u", "a", "g", "e", " ", "t", "r", "a",
    "n", "s", "l", "a", "t", "i", "o", "n", " ", "e", "x", "p", "e", "r", "t", ".",
    " ", "Y", "o", "u", "r", " ", "g", "o", "a", "l", " ", "i", "s", " ", "t", "o",
    " ", "p", "r", "o", "v", "i", "d", "e", " ", "a", "c", "c", "u", "r", "a", "t",
    "e", ",", " ", "c", "o", "n", "t", "e", "x", "t", "-", "s", "e", "n", "s", "i",
    "t", "i", "v", "e", " ", "U", "r", "d", "u", " ", "t", "r", "a", "n", "s", "l",
    "a", "t", "i", "o", "n", " ", "o", "f", " ", "E", "n", "g", "l", "i", "s", "h",
    " ", "w", "o", "r", "d", "s", " ", "a", "n", "d", " ", "s", "e", "n", "t", "e",
    "n", "c", "e", "s", " ", "w", "h", "i", "l", "e", " ", "h", "e", "l", "p", "i",
    "n", "g", " ", "l", "e", "a", "r", "n", "e", "r", "s", " ", "u", "n", "d", "e",
    "r", "s", "t", "a", "n", "d", " ", "a", "n", "d", " ", "a", "p", "p", "l", "y",
    " ", "t", "h", "e", " ", "c", "o", "n", "t", "e", "n", "t", " ", "e", "f", "f",
    "e", "c", "t", "i", "v", "e", "l", "y", ".", " ", "F", "o", "l", "l", "o", "w",
    " ", "t", "h", "e", "s", "e", " ", "s", "t", "e", "p", "s", ":", "\n", "\n", "#",
    "#", "#", " ", "1", ".", " ", "T", "r", "a", "n", "s", "l", "a", "t", "i", "o",
    "n", "\n", "T", "r", "a", "n", "s", "l", "a", "t", "e", " ", "t", "h", "e", " ",
    "f", "o", "l", "l", "o", "w", "i", "n", "g", " ", "i", "n", "t", "o", " ", "U",
    "r", "d", "u", ":", "\n", "\"", "{", "t", "e", "x", "t", "}", "\"", "\n", "\n", "#",
    "#", "#", " ", "2", ".", " ", "P", "r", "o", "n", "u", "n", "c", "i", "a", "t",
    "i", "o", "n", " ", "G", "u", "i", "d", "e", "\n", "P", "r", "o", "v", "i", "d",
    "e", " ", "E", "n", "g", "l", "i", "s", "h", " ", "p", "r", "o", "n", "u", "n",
    "c", "i", "a", "t", "i", "o", "n", ".", "\n", "\n", "#", "#", "#", " ", "3", ".",
    " ", "D", "e", "f", "i", "n", "i", "t", "i", "o", "n", "\n", "G", "i", "v", "e",
    " ", "a", " ", "s", "i", "m", "p", "l", "e", " ", "d", "e", "f", "i", "n", "i",
    "t", "i", "o", "n", ",", " ", "U", "r", "d", "u", " ", "m", "e", "a", "n", "i",
    "n", "g", "s", ",", " ", "s", "y", "n", "o", "n", "y", "m", "s", ",", " ", "a",
    "n", "t", "o", "n", "y", "m", "s", ",", " ", "e", "x", "a", "m", "p", "l", "e",
    " ", "s", "e", "n", "t", "e", "n", "c", "e", ",", " ", "&", " ", "R", "o", "m",
    "a", "n", " ", "U", "r", "d", "u", ".", "\n", "\n", "#", "#", "#", " ", "4", ".",
    " ", "V", "o", "c", "a", "b", "u", "l", "a", "r", "y", " ", "A", "n", "a", "l",
    "y", "s", "i", "s", "\n", "T", "a", "l", "k", " ", "a", "b", "o", "u", "t", " ",
    "u", "s", "a", "g", "e", ",", " ", "f", "o", "r", "m", "a", "l", "i", "t", "y",
    " ", "l", "e", "v", "e", "l", " ", "&", " ", "d", "i", "f", "f", "i", "c", "u",
    "l", "t", "y", ".", "\n", "\n", "#", "#", "#", " ", "5", ".", " ", "G", "r", "a",
    "m", "m", "a", "r", " ", "a", "n", "d", " ", "S", "t", "r", "u", "c", "t", "u",
    "r", "e", "\n", "I", "d", "e", "n", "t", "i", "f", "y", " ", "g", "r", "a", "m",
    "m", "a", "r", " ", "e", "l", "e", "m", "e", "n", "t", "s", " ", "&", " ", "e",
    "x", "p", "l", "a", "i", "n", " ", "i", "n", " ", "U", "r", "d", "u", ".", "\n",
    "\n", "#", "#", "#", " ", "6", ".", " ", "C", "o", "r", "r", "e", "c", "t", "i",
    "o", "n", "s", "\n", "S", "u", "g", "g", "e", "s", "t", " ", "g", "r", "a", "m",
    "m", "a", "r", "/", "s", "p", "e", "l", "l", "i", "n", "g", " ", "i", "m", "p",
    "r", "o", "v", "e", "m", "e", "n", "t", "s", ".", "\n">>

\* the one input variable of the template, as str.format reads it
Placeholder ==
    <<"{", "t", "e", "x", "t", "}">>

\* the separator of response.split("###")
Marker ==
    <<"#", "#", "#">>

\* "Section not found."
NotFoundText ==
    <<"S", "e", "c", "t", "i", "o", "n", " ", "n", "o", "t", " ", "f", "o", "u", "n",
    "d", ".">>

Translation ==
    <<"T", "r", "a", "n", "s", "l", "a", "t", "i", "o", "n">>

PronunciationGuide ==
    <<"P", "r", "o", "n", "u", "n", "c", "i", "a", "t", "i", "o", "n", " ", "G", "u",
    "i", "d", "e">>

Definition ==
    <<"D", "e", "f", "i", "n", "i", "t", "i", "o", "n">>

GrammarAndStructure ==
    <<"G", "r", "a", "m", "m", "a", "r", " ", "a", "n", "d", " ", "S", "t", "r", "u",
    "c", "t", "u", "r", "e">>

VocabularyAnalysis ==
    <<"V", "o", "c", "a", "b", "u", "l", "a", "r", "y", " ", "A", "n", "a", "l", "y",
    "s", "i", "s">>

Corrections ==
    <<"C", "o", "r", "r", "e", "c", "t", "i", "o", "n", "s">>

\* the sidebar's options, in the order of the list
options ==
    <<Translation, PronunciationGuide, Definition, GrammarAndStructure,
      VocabularyAnalysis, Corrections>>

\* the word that ends the session
EndWord ==
    <<"e", "n", "d">>

\* the radio's speeds
speeds == {"normal", "slow"}

\* "pronunciation.mp3"
audio_path == "pronunciation.mp3"

None == "None"
Unset == -1

---------------------------------------------------------------------------
(* Python's str operations.                                                *)

Range(s) == {s[i] : i \in 1..Len(s)}

Min(S) == CHOOSE x \in S : \A y \in S : x <= y

Max(S) == CHOOSE x \in S : \A y \in S : x >= y

UpperCase ==
    <<"A", "B", "C", "D", "E", "F", "G", "H", "I", "J", "K", "L", "M",
      "N", "O", "P", "Q", "R", "S", "T", "U", "V", "W", "X", "Y", "Z">>

LowerCase ==
    <<"a", "b", "c", "d", "e", "f", "g", "h", "i", "j", "k", "l", "m",
      "n", "o", "p", "q", "r", "s", "t", "u", "v", "w", "x", "y", "z">>

\* the characters str.split() and str.strip() treat as whitespace
Whitespace == {" ", "\t", "\n", "\r", "\f"}

LowerChar(c) ==
    IF c \in Range(UpperCase)
    THEN LowerCase[CHOOSE i \in 1..Len(UpperCase) : UpperCase[i] = c]
    ELSE c

\* s.lower()
Lower(s) == [i \in 1..Len(s) |-> LowerChar(s[i])]

\* s[i-1:].startswith(sub), i counted from 1
MatchAt(s, sub, i) ==
    /\ i + Len(sub) - 1 <= Len(s)
    /\ \A k \in 1..Len(sub) : s[i + k - 1] = sub[k]

\* s.find(sub, from), counted from 1; 0 when there is none
Find(s, sub, from) ==
    LET hits == {i \in from..(Len(s) - Len(sub) + 1) : MatchAt(s, sub, i)}
    IN  IF hits = {} THEN 0 ELSE Min(hits)

\* sub in s
Contains(s, sub) == Find(s, sub, 1) # 0

RECURSIVE SplitFrom(_, _, _)
SplitFrom(s, sep, from) ==
    LET at == Find(s, sep, from)
    IN  IF at = 0
        THEN <<SubSeq(s, from, Len(s))>>
        ELSE <<SubSeq(s, from, at - 1)>> \o SplitFrom(s, sep, at + Len(sep))

\* s.split(sep), sep not empty
Split(s, sep) == SplitFrom(s, sep, 1)

RECURSIVE Join(_, _)
\* sep.join(parts)
Join(sep, parts) ==
    IF parts = <<>> THEN <<>>
    ELSE IF Len(parts) = 1 THEN parts[1]
    ELSE parts[1] \o sep \o Join(sep, Tail(parts))

\* s.strip()
Strip(s) ==
    LET keep == {i \in 1..Len(s) : s[i] \notin Whitespace}
    IN  IF keep = {} THEN <<>> ELSE SubSeq(s, Min(keep), Max(keep))

RECURSIVE SplitWsFrom(_, _)
SplitWsFrom(s, from) ==
    LET starts == {i \in from..Len(s) : s[i] \notin Whitespace}
    IN  IF starts = {} THEN <<>>
        ELSE LET b == Min(starts)
                 stops == {i \in b..Len(s) : s[i] \in Whitespace}
                 e == IF stops = {} THEN Len(s) + 1 ELSE Min(stops)
             IN  <<SubSeq(s, b, e - 1)>> \o SplitWsFrom(s, e)

\* s.split(): the maximal runs of non-whitespace characters
SplitWs(s) == SplitWsFrom(s, 1)

\* s.replace(old, new), old not empty
Replace(s, old, new) == Join(new, Split(s, old))

---------------------------------------------------------------------------
(* The script's functions.                                                 *)

\* a slip: the template sent as it is, its field not filled
FormatPromptUnfilled(text) == template

\* prompt_template.format(text=text): the template has the one field {text}
\* and no doubled braces; the text put in is not scanned again
FormatPrompt(text) == Join(text, Split(template, Placeholder))

\* a slip: the match of line 289 without the two lower()
MatchesTitleExact(section, title) == Contains(section, title)

\* the test of line 289
MatchesTitle(section, title) == Contains(Lower(section), Lower(title))

RECURSIVE FirstSection(_, _, _)
\* the loop of lines 288-291, from the i-th section on
FirstSection(sections, title, i) ==
    IF i > Len(sections) THEN NotFoundText
    ELSE IF MatchesTitle(sections[i], title) THEN Strip(sections[i])
    ELSE FirstSection(sections, title, i + 1)

\* a slip: the last section instead of the fallback of line 291
extract_section_last(response, title) ==
    LET sections == Split(response, Marker)
        found == FirstSection(sections, title, 1)
    IN  IF \E i \in 1..Len(sections) : MatchesTitle(sections[i], title)
        THEN found
        ELSE Strip(sections[Len(sections)])

extract_section(response, title) == FirstSection(Split(response, Marker), title, 1)

\* the two assignments to clean_text in text_to_speech
CleanText(text) ==
    Replace(Replace(Join(<<" ">>, SplitWs(text)), <<"*">>, <<>>), <<"#">>, <<>>)

---------------------------------------------------------------------------
(* Bounds and the inputs the environment supplies.                         *)

\* the clock at the first script run (time.time() is far from 0)
StartClock == 4

\* seconds modelled after StartClock
Horizon == 8

\* longest pause between two script runs
MaxGap == 3

MaxTime == StartClock + Horizon

\* the reply of the documented end-to-end scenario
ExampleResponse ==
    <<"#", "#", "#", " ", "T", "r", "a", "n", "s", "l", "a", "t", "i", "o", "n", "\n",
    "U+062B", "U+0627", "U+0628", "U+062A", " ", "U+0642", "U+062F", "U+0645", "\n", "#", "#", "#", " ", "P", "r", "o",
    "n", "u", "n", "c", "i", "a", "t", "i", "o", "n", " ", "G", "u", "i", "d", "e",
    "\n", ".", ".", ".", "\n">>

\* the section the scenario expects for Translation
ExampleSection ==
    <<"T", "r", "a", "n", "s", "l", "a", "t", "i", "o", "n", "\n", "U+062B", "U+0627", "U+0628", "U+062A",
    " ", "U+0642", "U+062F", "U+0645">>

\* the documented example of normalisation and its result
HelloMarkup ==
    <<"H", "e", "l", "l", "o", " ", "*", "*", "w", "o", "r", "l", "d", "*", "*", " ",
    "#", "1">>

HelloClean ==
    <<"H", "e", "l", "l", "o", " ", "w", "o", "r", "l", "d", " ", "1">>

\* a reply with a markdown bullet list under a lower-case heading
BulletReply ==
    <<"#", "#", "#", " ", "p", "r", "o", "n", "u", "n", "c", "i", "a", "t", "i", "o", "n",
      " ", "g", "u", "i", "d", "e", "\n", "*", " ", "h", "i", " ", "*", " ", "H", "A", "Y">>

\* a reply without any heading
PlainReply == <<"o", "k">>

\* what the text box may hold in a run
UserInputs == {<<>>, EndWord, <<"E", "n", "D">>, <<"h", "i">>}

\* what the completion service may reply
Replies == {ExampleResponse, BulletReply, PlainReply}

---------------------------------------------------------------------------
(* The script. Streamlit runs it from the top on every interaction of the  *)
(* session, one run at a time; st.session_state outlives the run.          *)

\* the values a run starts from, besides what outlives it
NothingShown ==
    /\ current_time = 0
    /\ prompt = <<>>
    /\ clean_text = <<>>
    /\ audio = None
    /\ info = <<>>
    /\ messages = {}
    /\ player = FALSE
    /\ calls = 0
    /\ stamps = 0
    /\ synth = 0
    /\ slept = 0
    /\ elapsed = 0
    /\ prevStart = Unset
    /\ uncaught = FALSE

FreshRun ==
    /\ result = <<>>
    /\ sec = <<>>
    /\ NothingShown

Init ==
    /\ pc = "idle"
    /\ now = StartClock
    /\ GOOGLE_API_KEY \in BOOLEAN
    /\ last_request_time = Unset
    /\ user_input = <<>>
    /\ selected_option = options[1]
    /\ speed = "normal"
    /\ thisStart = Unset
    /\ FreshRun

\* a slip: the test of line 259 the wrong way round
MustWaitInverted(e) == e > RATE_LIMIT_SECONDS

\* the test of line 259
MustWait(e) == e < RATE_LIMIT_SECONDS

\* another script: sleeping only for what is left of the interval
SleepRemaining(e) == RATE_LIMIT_SECONDS - e

\* the argument of time.sleep, line 260
SleepSeconds(e) == RATE_LIMIT_SECONDS

\* a slip: the comparison of line 331 without lower()
IsEndExact(text) == text = EndWord

\* the test of line 331
IsEnd(text) == Lower(text) = EndWord

\* the title each branch of lines 338-367 passes to extract_section
BranchTitle(option) ==
    IF option = Translation THEN Translation
    ELSE IF option = PronunciationGuide THEN PronunciationGuide
    ELSE IF option = Definition THEN Definition
    ELSE IF option = VocabularyAnalysis THEN VocabularyAnalysis
    ELSE IF option = GrammarAndStructure THEN GrammarAndStructure
    ELSE Corrections

\* a rerun: the widgets' values of this run, load_dotenv, and the locals afresh
RunStart ==
    /\ pc \in {"idle", "done", "stopped", "failed"}
    /\ \E gap \in 0..MaxGap :
          /\ now + gap + RATE_LIMIT_SECONDS <= MaxTime
          /\ now' = now + gap
    /\ user_input' \in UserInputs
    /\ selected_option' \in Range(options)
    /\ speed' \in speeds
    /\ GOOGLE_API_KEY' \in (IF GOOGLE_API_KEY THEN {TRUE} ELSE BOOLEAN)
    /\ pc' = "key_check"
    /\ current_time' = 0
    /\ prompt' = <<>>
    /\ result' = <<>>
    /\ sec' = <<>>
    /\ clean_text' = <<>>
    /\ audio' = None
    /\ info' = <<>>
    /\ messages' = {}
    /\ player' = FALSE
    /\ calls' = 0
    /\ stamps' = 0
    /\ synth' = 0
    /\ slept' = 0
    /\ elapsed' = 0
    /\ prevStart' = Unset
    /\ uncaught' = FALSE
    /\ UNCHANGED <<last_request_time, thisStart>>

\* a slip: the notice of line 208 without the st.stop() of line 209
KeyCheckNoStop ==
    /\ pc = "key_check"
    /\ messages' = IF GOOGLE_API_KEY THEN messages ELSE messages \cup {"key_missing"}
    /\ last_request_time' = IF last_request_time = Unset THEN 0 ELSE last_request_time
    /\ pc' = "dispatch"
    /\ UNCHANGED <<now, GOOGLE_API_KEY, user_input, selected_option, speed, current_time,
                   prompt, result, sec, clean_text, audio, info, player, calls, stamps,
                   synth, slept, elapsed, prevStart, thisStart, uncaught>>

\* lines 207-215: st.stop() without the key, else the session state's defaults
KeyCheck ==
    /\ pc = "key_check"
    /\ IF ~GOOGLE_API_KEY
       THEN /\ messages' = messages \cup {"key_missing"}
            /\ pc' = "stopped"
            /\ UNCHANGED last_request_time
       ELSE /\ last_request_time' =
                  IF last_request_time = Unset THEN 0 ELSE last_request_time
            /\ pc' = "dispatch"
            /\ UNCHANGED messages
    /\ UNCHANGED <<now, GOOGLE_API_KEY, user_input, selected_option, speed, current_time,
                   prompt, result, sec, clean_text, audio, info, player, calls, stamps,
                   synth, slept, elapsed, prevStart, thisStart, uncaught>>

\* lines 330-335 and, where the run ends here, line 369
Dispatch ==
    /\ pc = "dispatch"
    /\ IF user_input = <<>>
       THEN /\ messages' = messages \cup {"ready"}
            /\ pc' = "done"
       ELSE IF IsEnd(user_input)
       THEN /\ messages' = messages \cup {"session_ended", "ready"}
            /\ pc' = "done"
       ELSE /\ pc' = "throttle"
            /\ UNCHANGED messages
    /\ UNCHANGED <<now, GOOGLE_API_KEY, last_request_time, user_input, selected_option,
                   speed, current_time, prompt, result, sec, clean_text, audio, info,
                   player, calls, stamps, synth, slept, elapsed, prevStart, thisStart,
                   uncaught>>

\* lines 258-259
Throttle ==
    /\ pc = "throttle"
    /\ current_time' = now
    /\ elapsed' = now - last_request_time
    /\ pc' = IF MustWait(now - last_request_time) THEN "sleep" ELSE "stamp"
    /\ UNCHANGED <<now, GOOGLE_API_KEY, last_request_time, user_input, selected_option,
                   speed, prompt, result, sec, clean_text, audio, info, messages, player,
                   calls, stamps, synth, slept, prevStart, thisStart, uncaught>>

\* line 260: time.sleep suspends for its argument (what it may add to it is
\* far below a second)
Sleep ==
    /\ pc = "sleep"
    /\ slept' = SleepSeconds(elapsed)
    /\ now' = now + SleepSeconds(elapsed)
    /\ pc' = "stamp"
    /\ UNCHANGED <<GOOGLE_API_KEY, last_request_time, user_input, selected_option, speed,
                   current_time, prompt, result, sec, clean_text, audio, info, messages,
                   player, calls, stamps, synth, elapsed, prevStart, thisStart, uncaught>>

\* line 262
Stamp ==
    /\ pc = "stamp"
    /\ last_request_time' = now
    /\ stamps' = stamps + 1
    /\ pc' = "call"
    /\ UNCHANGED <<now, GOOGLE_API_KEY, user_input, selected_option, speed, current_time,
                   prompt, result, sec, clean_text, audio, info, messages, player, calls,
                   synth, slept, elapsed, prevStart, thisStart, uncaught>>

\* line 264: the chain renders the prompt and calls the service, which replies
\* or raises; nothing around the call at line 335 catches
CallModel ==
    /\ pc = "call"
    /\ prompt' = FormatPrompt(user_input)
    /\ calls' = calls + 1
    /\ prevStart' = thisStart
    /\ thisStart' = now
    /\ \/ /\ result' \in Replies
          /\ pc' = "render"
          /\ UNCHANGED uncaught
       \/ /\ uncaught' = TRUE
          /\ pc' = "failed"
          /\ UNCHANGED result
    /\ UNCHANGED <<now, GOOGLE_API_KEY, last_request_time, user_input, selected_option,
                   speed, current_time, sec, clean_text, audio, info, messages, player,
                   stamps, synth, slept, elapsed>>

\* lines 338-367: the branch of the selected option; line 369 where it ends the run
Render ==
    /\ pc = "render"
    /\ LET title == BranchTitle(selected_option)
           body == extract_section(result, title)
       IN  /\ sec' = body
           /\ info' = Append(info, [title |-> title, body |-> body])
    /\ IF selected_option = PronunciationGuide
       THEN /\ pc' = "tts"
            /\ UNCHANGED messages
       ELSE /\ pc' = "done"
            /\ messages' = messages \cup {"ready"}
    /\ UNCHANGED <<now, GOOGLE_API_KEY, last_request_time, user_input, selected_option,
                   speed, current_time, prompt, result, clean_text, audio, player, calls,
                   stamps, synth, slept, elapsed, prevStart, thisStart, uncaught>>

\* lines 268-282, called at line 349: gTTS and tts.save succeed or raise
TextToSpeech ==
    /\ pc = "tts"
    /\ clean_text' = CleanText(sec)
    /\ synth' = synth + 1
    /\ \/ /\ audio' = audio_path
          /\ UNCHANGED messages
       \/ /\ audio' = None
          /\ messages' = messages \cup {"tts_error"}
    /\ pc' = "audio"
    /\ UNCHANGED <<now, GOOGLE_API_KEY, last_request_time, user_input, selected_option,
                   speed, current_time, prompt, result, sec, info, player, calls, stamps,
                   slept, elapsed, prevStart, thisStart, uncaught>>

\* a slip: st.audio without the test of line 350
ShowAudioAlways ==
    /\ pc = "audio"
    /\ player' = TRUE
    /\ messages' = messages \cup {"ready"}
    /\ pc' = "done"
    /\ UNCHANGED <<now, GOOGLE_API_KEY, last_request_time, user_input, selected_option,
                   speed, current_time, prompt, result, sec, clean_text, audio, info,
                   calls, stamps, synth, slept, elapsed, prevStart, thisStart, uncaught>>

\* lines 350-351 and 369
ShowAudio ==
    /\ pc = "audio"
    /\ player' = (audio # None)
    /\ messages' = messages \cup {"ready"}
    /\ pc' = "done"
    /\ UNCHANGED <<now, GOOGLE_API_KEY, last_request_time, user_input, selected_option,
                   speed, current_time, prompt, result, sec, clean_text, audio, info,
                   calls, stamps, synth, slept, elapsed, prevStart, thisStart, uncaught>>

Next ==
    \/ RunStart
    \/ KeyCheck
    \/ Dispatch
    \/ Throttle
    \/ Sleep
    \/ Stamp
    \/ CallModel
    \/ Render
    \/ TextToSpeech
    \/ ShowAudio

Spec == Init /\ [][Next]_vars

---------------------------------------------------------------------------
(* The functions on their own: each specification draws the arguments of   *)
(* one function from a bounded set and applies the function once.          *)

\* longest reply, in pieces
MaxPieces == 3

\* longest text handed to text_to_speech, in characters
MaxSpoken == 5

\* longest text typed into the box, in characters
MaxTyped == 3

RECURSIVE Flatten(_)
Flatten(parts) == IF parts = <<>> THEN <<>> ELSE parts[1] \o Flatten(Tail(parts))

\* the pieces replies are put together from
Pieces ==
    {Marker, <<"#">>, <<" ">>, <<"\n">>, <<"x">>, Translation, Lower(Definition),
     <<"t", "R", "A", "N", "S", "L", "A", "T", "I", "O", "N">>}

SeqsUpTo(S, n) == UNION {[1..k -> S] : k \in 0..n}

ExtractInputs == {Flatten(ps) : ps \in SeqsUpTo(Pieces, MaxPieces)} \cup Replies

SpokenInputs == SeqsUpTo({"a", " ", "\n", "*", "#"}, MaxSpoken) \cup {HelloMarkup}

TypedInputs ==
    (SeqsUpTo({"a", "z", "\"", "{"}, MaxTyped) \ {<<>>})
        \cup {Placeholder, <<"U", "r", "d", "u">>, <<"h", "i">>}

\* the state outside the function under study
Idle ==
    /\ now = StartClock
    /\ GOOGLE_API_KEY = TRUE
    /\ last_request_time = Unset
    /\ speed = "normal"
    /\ thisStart = Unset
    /\ NothingShown

InitExtract ==
    /\ pc = "extract_section"
    /\ result \in ExtractInputs
    /\ sec = <<>>
    /\ selected_option \in Range(options)
    /\ user_input = <<>>
    /\ Idle

\* extract_section(result, selected_option), lines 285-291
ExtractSection ==
    /\ pc = "extract_section"
    /\ sec' = extract_section(result, selected_option)
    /\ pc' = "extracted"
    /\ UNCHANGED <<now, GOOGLE_API_KEY, last_request_time, user_input, selected_option,
                   speed, current_time, prompt, result, clean_text, audio, info, messages,
                   player, calls, stamps, synth, slept, elapsed, prevStart, thisStart,
                   uncaught>>

SpecExtract == InitExtract /\ [][ExtractSection]_vars

InitSpeech ==
    /\ pc = "text_to_speech"
    /\ sec \in SpokenInputs
    /\ result = <<>>
    /\ selected_option = PronunciationGuide
    /\ user_input = <<>>
    /\ Idle

\* lines 271-272 of text_to_speech(sec, speed)
NormaliseSpeech ==
    /\ pc = "text_to_speech"
    /\ clean_text' = CleanText(sec)
    /\ pc' = "normalised"
    /\ UNCHANGED <<now, GOOGLE_API_KEY, last_request_time, user_input, selected_option,
                   speed, current_time, prompt, result, sec, audio, info, messages, player,
                   calls, stamps, synth, slept, elapsed, prevStart, thisStart, uncaught>>

SpecSpeech == InitSpeech /\ [][NormaliseSpeech]_vars

InitPrompt ==
    /\ pc = "format"
    /\ user_input \in TypedInputs
    /\ result = <<>>
    /\ sec = <<>>
    /\ selected_option = options[1]
    /\ Idle

\* the prompt the chain renders at line 264
RenderPrompt ==
    /\ pc = "format"
    /\ prompt' = FormatPrompt(user_input)
    /\ pc' = "formatted"
    /\ UNCHANGED <<now, GOOGLE_API_KEY, last_request_time, user_input, selected_option,
                   speed, current_time, result, sec, clean_text, audio, info, messages,
                   player, calls, stamps, synth, slept, elapsed, prevStart, thisStart,
                   uncaught>>

SpecPrompt == InitPrompt /\ [][RenderPrompt]_vars

---------------------------------------------------------------------------
(* What the claims speak about, said without the script's own operators.   *)

\* a and b are the same character, or the two cases of one letter
SameLetter(a, b) ==
    \/ a = b
    \/ \E j \in 1..Len(UpperCase) : {a, b} = {UpperCase[j], LowerCase[j]}

\* name occurs in frag, the case of letters ignored
OccursIgnoringCase(frag, name) ==
    \E i \in 1..(Len(frag) - Len(name) + 1) :
        \A k \in 1..Len(name) : SameLetter(frag[i + k - 1], name[k])

\* the number of places of s where sub occurs
Occurrences(s, sub) ==
    Cardinality({i \in 1..(Len(s) - Len(sub) + 1) :
                    \A k \in 1..Len(sub) : s[i + k - 1] = sub[k]})

\* frags are the pieces of s between its "###" markers
IsSplitOn(frags, s) ==
    /\ Flatten([i \in 1..(2 * Len(frags) - 1) |->
                   IF i % 2 = 1 THEN frags[(i + 1) \div 2] ELSE Marker]) = s
    /\ \A i \in 1..Len(frags) : Occurrences(frags[i], Marker) = 0

\* t is s without the whitespace at its two ends
IsTrimOf(t, s) ==
    /\ t # <<>> => t[1] \notin Whitespace /\ t[Len(t)] \notin Whitespace
    /\ \E lo \in 1..(Len(s) + 1) :
          /\ lo + Len(t) - 1 <= Len(s)
          /\ \A k \in 1..Len(s) :
                IF k >= lo /\ k < lo + Len(t)
                THEN s[k] = t[k - lo + 1]
                ELSE s[k] \in Whitespace

\* the sections of the reply, and those naming the selected option
Fragments == Split(result, Marker)

Naming == {i \in 1..Len(Fragments) : OccursIgnoringCase(Fragments[i], selected_option)}

\* the place of the template's field
FieldAt == CHOOSE i \in 1..Len(template) : MatchAt(template, Placeholder, i)

---------------------------------------------------------------------------
(* The claims.                                                             *)

\* C1: within a session the start times of two consecutive completion calls
\* are at least RATE_LIMIT_SECONDS apart.
C1_MinimumGap ==
    (prevStart # Unset /\ thisStart # Unset)
        => thisStart - prevStart >= RATE_LIMIT_SECONDS

\* a call that came less than two seconds after the one before and was made
C1_Witness ==
    /\ calls = 1
    /\ prevStart # Unset
    /\ current_time - prevStart < RATE_LIMIT_SECONDS
    /\ slept > 0

\* C2: extract_section splits the reply on "###" and returns, trimmed, the
\* first fragment in reply order that contains the name whatever the case of
\* its letters; for the documented reply and "Translation" it returns the
\* documented section.
C2_FirstMatchTrimmed ==
    pc = "extracted" =>
        /\ IsSplitOn(Fragments, result)
        /\ Naming # {} => IsTrimOf(sec, Fragments[Min(Naming)])
        /\ (result = ExampleResponse /\ selected_option = Translation)
              => sec = ExampleSection

\* the name is found, in other letter case, in a fragment that is not the first
C2_Witness ==
    /\ pc = "extracted"
    /\ Naming # {}
    /\ Min(Naming) > 1
    /\ ~Contains(Fragments[Min(Naming)], selected_option)
    /\ sec # Fragments[Min(Naming)]

\* C3: when no fragment of the reply contains the name (a reply without
\* "###" and the empty reply included), extract_section returns exactly
\* "Section not found.".
C3_Fallback ==
    (pc = "extracted" /\ Naming = {}) => sec = NotFoundText

\* the empty reply
C3_Witness ==
    /\ pc = "extracted"
    /\ result = <<>>
    /\ Naming = {}
    /\ sec = NotFoundText

\* C4, as stated: the rendered prompt contains the raw text exactly once.
C4_ExactlyOnce ==
    pc = "formatted" => Occurrences(prompt, user_input) = 1

\* C4, amended: the rendered prompt is the template with its one {text} field
\* replaced by the raw text, so the raw text occurs in it at the field's
\* place, and so at least once.
C4_FieldFilledOnce ==
    pc = "formatted" =>
        /\ Occurrences(template, Placeholder) = 1
        /\ Len(prompt) = Len(template) - Len(Placeholder) + Len(user_input)
        /\ SubSeq(prompt, 1, FieldAt - 1) = SubSeq(template, 1, FieldAt - 1)
        /\ SubSeq(prompt, FieldAt, FieldAt + Len(user_input) - 1) = user_input
        /\ SubSeq(prompt, FieldAt + Len(user_input), Len(prompt))
              = SubSeq(template, FieldAt + Len(Placeholder), Len(template))
        /\ Occurrences(prompt, user_input) >= 1

\* a text that the template's own words contain as well
C4_Witness ==
    /\ pc = "formatted"
    /\ user_input = <<"a">>
    /\ Occurrences(prompt, user_input) > 1

\* C5: the text handed to the synthesis call has no "*", no "#" and no two
\* adjacent whitespace characters; "Hello **world** #1" becomes "Hello world 1".
C5_Normalised ==
    pc = "normalised" =>
        /\ \A i \in 1..Len(clean_text) : clean_text[i] \notin {"*", "#"}
        /\ \A i \in 1..(Len(clean_text) - 1) :
              ~(clean_text[i] \in Whitespace /\ clean_text[i + 1] \in Whitespace)
        /\ sec = HelloMarkup => clean_text = HelloClean

\* C6, as stated: a run whose input is "end" in any case makes no throttle
\* step and no completion call and shows the session-ended notice; a run
\* with any other input makes exactly one completion call and renders
\* exactly one section, that of the selected option.
C6_OneCallOneSection ==
    (pc \in {"done", "failed"} /\ user_input # <<>>) =>
        IF OccursIgnoringCase(user_input, EndWord) /\ Len(user_input) = Len(EndWord)
        THEN /\ calls = 0 /\ stamps = 0 /\ slept = 0
             /\ "session_ended" \in messages
        ELSE /\ calls = 1
             /\ Len(info) = 1
             /\ info[1].title = selected_option

\* C6, amended: as stated for "end"; an empty box invokes nothing; any other
\* input makes exactly one completion call, and exactly one section, that of
\* the selected option, is rendered when the call returns, none when it raises.
C6_OneCallSectionIfReturned ==
    pc \in {"done", "failed"} =>
        IF user_input = <<>>
        THEN calls = 0 /\ stamps = 0 /\ info = <<>> /\ "session_ended" \notin messages
        ELSE IF OccursIgnoringCase(user_input, EndWord) /\ Len(user_input) = Len(EndWord)
        THEN /\ calls = 0 /\ stamps = 0 /\ slept = 0 /\ info = <<>>
             /\ "session_ended" \in messages
        ELSE /\ calls = 1
             /\ stamps = 1
             /\ "session_ended" \notin messages
             /\ IF uncaught
                THEN info = <<>>
                ELSE Len(info) = 1 /\ info[1].title = selected_option

\* "EnD" ended a run, and before it another input had its section rendered
C6_Witness ==
    /\ pc = "done"
    /\ user_input = <<"E", "n", "D">>
    /\ "session_ended" \in messages
    /\ thisStart # Unset

\* C7: a failed completion call is recovered: an error notice is shown, no
\* section is rendered and no exception leaves the script run.
C7_FailureRecovered ==
    (calls = 1 /\ pc = "failed") => ~uncaught /\ messages # {} /\ info = <<>>

\* C8: for Pronunciation Guide, when synthesis fails, text_to_speech returns
\* nothing and shows an error notice, the section already shown stays shown,
\* no audio player is rendered, and the run goes on to its end.
C8_SynthesisFailureInline ==
    (synth = 1 /\ audio = None) =>
        /\ pc \in {"audio", "done"}
        /\ "tts_error" \in messages
        /\ ~player
        /\ ~uncaught
        /\ info = <<[title |-> PronunciationGuide, body |-> sec]>>

\* a run that ended after a failed synthesis
C8_Witness ==
    /\ pc = "done"
    /\ synth = 1
    /\ audio = None
    /\ "ready" \in messages
    /\ Len(info) = 1

\* C9: without the API key the script halts before any input is taken: no
\* throttle update, no completion call and no synthesis call in that run.
C9_NoKeyNoRequest ==
    ~GOOGLE_API_KEY =>
        /\ pc \in {"idle", "key_check", "stopped"}
        /\ calls = 0 /\ stamps = 0 /\ synth = 0 /\ slept = 0
        /\ info = <<>>

\* a run halted by st.stop(), with a text in the box
C9_Witness ==
    /\ pc = "stopped"
    /\ ~GOOGLE_API_KEY
    /\ "key_missing" \in messages
    /\ user_input = <<"h", "i">>

\* C10, as stated: a call with elapsed < 2 is suspended for exactly
\* 2 - elapsed seconds, so that its completion call starts exactly 2 seconds
\* after the one before; with elapsed >= 2 it is not suspended.
C10_SleepsTheRemainder ==
    calls = 1 =>
        IF elapsed < RATE_LIMIT_SECONDS
        THEN /\ slept = RATE_LIMIT_SECONDS - elapsed
             /\ thisStart = prevStart + RATE_LIMIT_SECONDS
        ELSE slept = 0

\* C10, amended: a call with elapsed < 2 is suspended for the whole
\* RATE_LIMIT_SECONDS, so that its completion call starts 2 + elapsed seconds
\* after the one before; with elapsed >= 2 it is not suspended.
C10_SleepsTheWholeInterval ==
    calls = 1 =>
        IF elapsed < RATE_LIMIT_SECONDS
        THEN /\ slept = RATE_LIMIT_SECONDS
             /\ thisStart = current_time + slept
             /\ prevStart # Unset
             /\ thisStart = prevStart + elapsed + RATE_LIMIT_SECONDS
        ELSE slept = 0 /\ thisStart = current_time

\* a call one second after the one before
C10_Witness ==
    /\ calls = 1
    /\ elapsed = 1
    /\ slept = RATE_LIMIT_SECONDS
    /\ prevStart # Unset

====
